---- MODULE Spec2Model ----
(***************************************************************************)
(* Model of the outfit-assistant services of ai-store-v3:                  *)
(*   - src/src/services/openai.ts: parseOutfitPrompt (and its alias        *)
(*     extractTravelInfo), extractOutfitContext, generateOutfitSuggestions *)
(*   - src/unnamed/part_001: extractTravelInfo, generateOutfitSuggestions  *)
(*   - src/unnamed/part_000: the Header component's auth effect            *)
(* One invocation at a time: the caller invokes an entry point, the entry  *)
(* point either throws at once or awaits the external model, and the       *)
(* continuation after the await returns a value or throws.                 *)
(***************************************************************************)
EXTENDS Integers, Sequences, FiniteSets, TLC

VARIABLES
    pc,       \* "idle", "awaiting" (the external call is in flight) or "done"
    fn,       \* the entry point invoked
    message,  \* the message argument of an extraction
    params,   \* the params argument of a generation
    context,  \* the context string a generation built
    prompt,   \* the messages sent to the external model
    calls,    \* external calls issued by this invocation
    reply,    \* what the external call settled with
    outcome,  \* what the caller observes
    console,  \* what console.error was given
    header    \* the Header component: its user state, effect and auth client

services == <<pc, fn, message, params, context, prompt, calls, reply, outcome, console>>

vars == <<pc, fn, message, params, context, prompt, calls, reply, outcome, console, header>>

(***************************************************************************)
(* Bounds of the model.                                                    *)
(***************************************************************************)
\* highest temperature of an observation, in degrees Fahrenheit
MaxTemperature == 120
\* most runs of the Header's auth effect (the first and the re-runs)
MaxEffects == 2
\* most changes of the auth session
MaxEvents == 3
\* longest user message, in characters
MaxMsgLen == 2
\* most prose words the external model puts before / after its JSON
MaxProse == 1
\* most elements of a JSON array in a reply
MaxElems == 4
\* most optional context fields populated in one generation call
MaxFields == 2

(***************************************************************************)
(* Strings.  A message is a sequence of characters; " " is whitespace.     *)
(***************************************************************************)
MsgChars == {" ", "a"}

IsWhitespace(c) == c = " "

Messages == UNION {[1..n -> MsgChars] : n \in 0..MaxMsgLen}

RECURSIVE TrimStart(_)
TrimStart(s) ==
    IF s # <<>> /\ IsWhitespace(Head(s)) THEN TrimStart(Tail(s)) ELSE s

RECURSIVE TrimEnd(_)
TrimEnd(s) ==
    IF s # <<>> /\ IsWhitespace(s[Len(s)])
    THEN TrimEnd(SubSeq(s, 1, Len(s) - 1))
    ELSE s

\* String.prototype.trim
Trim(s) == TrimEnd(TrimStart(s))

\* JavaScript truthiness of a string: only the empty string is falsy
Truthy(s) == s # <<>>

(***************************************************************************)
(* Optional text: a string that may be null / undefined.                   *)
(***************************************************************************)
NoText == [present |-> FALSE, text |-> <<>>]

Text(s) == [present |-> TRUE, text |-> s]

(***************************************************************************)
(* Reply texts of the external model, as token sequences.  An object       *)
(* literal is one token; ObjProps gives the properties it parses to.       *)
(***************************************************************************)
Undefined == "undefined"

\* a word of prose around the JSON ("Here you go:", "Enjoy!")
Prose == "Here"

FullOutfit == "{type:A,description:d,searchQuery:q,imagePrompt:i}"

PartialOutfit == "{type:A}"

MovieContext == "{type:movie,inspirationType:movie}"

GenericContext == "{type:generic}"

UnknownTagContext == "{type:vibes,inspirationType:vibes}"

EmptyObject == "{}"

EchoContext == "{type:event,inspirationType:event,originalQuery:a}"

ObjectLiterals ==
    {FullOutfit, PartialOutfit, MovieContext, GenericContext,
     UnknownTagContext, EmptyObject, EchoContext}

ScalarLiterals == {"42"}

NullLiteral == "null"

Literals == ObjectLiterals \cup ScalarLiterals \cup {NullLiteral}

EmptyProps ==
    [type |-> Undefined, inspirationType |-> Undefined, originalQuery |-> NoText,
     description |-> Undefined, searchQuery |-> Undefined, imagePrompt |-> Undefined]

\* the own properties of the object an object literal parses to
ObjProps(lit) ==
    CASE lit = FullOutfit ->
           [EmptyProps EXCEPT !.type = "A", !.description = "d",
                              !.searchQuery = "q", !.imagePrompt = "i"]
      [] lit = PartialOutfit -> [EmptyProps EXCEPT !.type = "A"]
      [] lit = MovieContext ->
           [EmptyProps EXCEPT !.type = "movie", !.inspirationType = "movie"]
      [] lit = GenericContext -> [EmptyProps EXCEPT !.type = "generic"]
      [] lit = UnknownTagContext ->
           [EmptyProps EXCEPT !.type = "vibes", !.inspirationType = "vibes"]
      [] lit = EchoContext ->
           [EmptyProps EXCEPT !.type = "event", !.inspirationType = "event",
                              !.originalQuery = Text(<<"a">>)]
      [] OTHER -> EmptyProps

(***************************************************************************)
(* JSON values and JSON.parse.                                             *)
(***************************************************************************)
NullValue == [kind |-> "null", props |-> EmptyProps, items |-> <<>>]

NumberValue == [kind |-> "number", props |-> EmptyProps, items |-> <<>>]

ObjectValue(p) == [kind |-> "object", props |-> p, items |-> <<>>]

ArrayValue(xs) == [kind |-> "array", props |-> EmptyProps, items |-> xs]

LiteralValue(lit) ==
    IF lit \in ObjectLiterals THEN ObjectValue(ObjProps(lit))
    ELSE IF lit = NullLiteral THEN NullValue
    ELSE NumberValue

ParseFail == [ok |-> FALSE, val |-> NullValue, next |-> 0]

ParseOk(v, n) == [ok |-> TRUE, val |-> v, next |-> n]

RECURSIVE ParseValueAt(_, _)
RECURSIVE ParseElementsAt(_, _, _)

\* value := literal | "[" "]" | "[" value ("," value)* "]"
ParseValueAt(t, i) ==
    IF i > Len(t) THEN ParseFail
    ELSE IF t[i] \in Literals THEN ParseOk(LiteralValue(t[i]), i + 1)
    ELSE IF t[i] = "["
         THEN IF i + 1 <= Len(t) /\ t[i + 1] = "]"
              THEN ParseOk(ArrayValue(<<>>), i + 2)
              ELSE ParseElementsAt(t, i + 1, <<>>)
    ELSE ParseFail

ParseElementsAt(t, i, acc) ==
    LET r == ParseValueAt(t, i) IN
    IF ~r.ok \/ r.next > Len(t) THEN ParseFail
    ELSE IF t[r.next] = "]" THEN ParseOk(ArrayValue(Append(acc, r.val)), r.next + 1)
    ELSE IF t[r.next] = "," THEN ParseElementsAt(t, r.next + 1, Append(acc, r.val))
    ELSE ParseFail

\* JSON.parse(text): its argument is first converted to a string, so a null
\* content parses as the text "null"; the whole text must be one value
JSONParse(content) ==
    LET t == IF content.present THEN content.text ELSE <<NullLiteral>>
        r == ParseValueAt(t, 1)
    IN IF r.ok /\ r.next = Len(t) + 1 THEN r ELSE ParseFail

\* Array.isArray
IsArray(v) == v.kind = "array"

(***************************************************************************)
(* Replies of the external model: a transport failure, a null content, or  *)
(* a text: prose, then a body, then prose.                                 *)
(***************************************************************************)
ProseRuns == UNION {[1..n -> {Prose}] : n \in 0..MaxProse}

ElementLiterals == {FullOutfit, PartialOutfit}

RECURSIVE JoinElements(_)
JoinElements(es) ==
    IF Len(es) = 0 THEN <<>>
    ELSE IF Len(es) = 1 THEN <<es[1]>>
    ELSE <<es[1], ",">> \o JoinElements(Tail(es))

\* the text of a JSON array of the elements es
ArrayText(es) == <<"[">> \o JoinElements(es) \o <<"]">>

ArrayTexts ==
    {ArrayText(es) : es \in UNION {[1..n -> ElementLiterals] : n \in 0..MaxElems}}

MalformedTexts ==
    { <<>>,
      <<"[", FullOutfit>>,
      <<"[", FullOutfit, ",", "]">>,
      <<"[", Prose, "]">>,
      <<"]", FullOutfit, "[">> }

Bodies == ArrayTexts \cup MalformedTexts \cup {<<lit>> : lit \in Literals}

ReplyTexts == {pre \o body \o post : pre \in ProseRuns, body \in Bodies, post \in ProseRuns}

NoReply == [status |-> "none", content |-> NoText]

TransportFailure == [status |-> "failed", content |-> NoText]

Completion(content) == [status |-> "ok", content |-> content]

\* what openai.chat.completions.create can settle with
ModelReplies ==
    {TransportFailure, Completion(NoText)} \cup {Completion(Text(t)) : t \in ReplyTexts}

(***************************************************************************)
(* Errors.  An Error carries a message; `quoted` is the input text the     *)
(* message quotes, which only the engine's JSON.parse message may do.      *)
(***************************************************************************)
NoError == [message |-> "", quoted |-> NoText]

Error(msg) == [message |-> msg, quoted |-> NoText]

\* the rejection of the external call: network, auth or quota failure
TransportError == Error("Connection error.")

\* the SyntaxError of JSON.parse: the wording is the engine's, and may or may
\* not quote the whole input
SyntaxErrors(content) ==
    { Error("Unexpected token"),
      [message |-> "Unexpected token", quoted |-> content] }

\* the TypeError of an assignment to a property of null or, in strict mode,
\* of a primitive
PropertyTypeError == Error("Cannot set properties")

(***************************************************************************)
(* Outcomes of an invocation, as its caller observes them.                 *)
(***************************************************************************)
Pending == [status |-> "pending", value |-> NullValue, error |-> NoError]

Returned(v) == [status |-> "returned", value |-> v, error |-> NoError]

Thrown(e) == [status |-> "thrown", value |-> NullValue, error |-> e]

(***************************************************************************)
(* Extraction: parseOutfitPrompt, extractOutfitContext, extractTravelInfo. *)
(***************************************************************************)
NoLog == [label |-> "", text |-> NoText]

NoPrompt == [system |-> "", user |-> <<>>]

\* the guard without the trim: `!message`
IsBlankUntrimmed(m) == ~Truthy(m)

\* the guard `!message.trim()`
IsBlank(m) == ~Truthy(Trim(m))

\* the assignment with the normalised text: `parsed.originalQuery = message.trim()`
AttachTrimmedQuery(parsed, m) ==
    [parsed EXCEPT !.props.originalQuery = Text(Trim(m))]

\* `parsed.originalQuery = message`
AttachOriginalQuery(parsed, m) ==
    [parsed EXCEPT !.props.originalQuery = Text(m)]

\* `new Error(err.message || 'Unable to understand your request')`
Rethrow(e) ==
    IF e.message # "" THEN [message |-> e.message, quoted |-> e.quoted]
    ELSE Error("Unable to understand your request")

\* the body of parseOutfitPrompt's try block and its catch, given the reply
ParseOutfitPromptOutcomes(m, r) ==
    IF r.status = "failed" THEN {Thrown(Rethrow(TransportError))}
    ELSE IF ~r.content.present \/ ~Truthy(r.content.text)
         THEN {Thrown(Rethrow(Error("Empty response from OpenAI")))}
    ELSE LET p == JSONParse(r.content) IN
         IF ~p.ok THEN {Thrown(Rethrow(e)) : e \in SyntaxErrors(r.content)}
         ELSE IF p.val.kind \in {"null", "number"}
              THEN {Thrown(Rethrow(PropertyTypeError))}
         ELSE {Returned(AttachOriginalQuery(p.val, m))}

\* the continuation of extractOutfitContext / extractTravelInfo after the await
ExtractContextOutcome(r) ==
    IF r.status = "failed" THEN Thrown(TransportError)
    ELSE LET p == JSONParse(r.content) IN
         IF p.ok THEN Returned(p.val)
         ELSE Thrown(Error("Could not understand your request - please refine the details."))

ExtractContextLog(r) ==
    IF r.status = "ok" /\ ~JSONParse(r.content).ok
    THEN [label |-> "Context-parse error", text |-> r.content]
    ELSE NoLog

\* an extraction entry point f is invoked with message m: the guard throws
\* before anything else, otherwise the external call is issued
ExtractionCall(f, m, system, blankMessage) ==
    /\ pc = "idle"
    /\ fn' = f
    /\ message' = m
    /\ reply' = NoReply
    /\ console' = NoLog
    /\ IF IsBlank(m)
       THEN /\ pc' = "done"
            /\ calls' = 0
            /\ prompt' = NoPrompt
            /\ outcome' = Thrown(Error(blankMessage))
       ELSE /\ pc' = "awaiting"
            /\ calls' = 1
            /\ prompt' = [system |-> system, user |-> m]
            /\ outcome' = Pending
    /\ UNCHANGED <<params, context, header>>

ParseOutfitPrompt ==
    /\ pc = "idle"
    /\ \E m \in Messages :
        ExtractionCall("parseOutfitPrompt", m, "schema", "Please provide a valid input")

ParseOutfitPromptResume ==
    /\ pc = "awaiting"
    /\ fn = "parseOutfitPrompt"
    /\ \E r \in ModelReplies :
        /\ reply' = r
        /\ \E o \in ParseOutfitPromptOutcomes(message, r) :
            /\ outcome' = o
            /\ console' = IF o.status = "thrown"
                          THEN [label |-> "parseOutfitPrompt error:", text |-> o.error.quoted]
                          ELSE NoLog
    /\ pc' = "done"
    /\ UNCHANGED <<fn, message, params, context, prompt, calls, header>>

ExtractOutfitContext ==
    /\ pc = "idle"
    /\ \E m \in Messages :
        ExtractionCall("extractOutfitContext", m, "extractionSystemPrompt",
                       "Please provide a non-empty prompt.")

ExtractOutfitContextResume ==
    /\ pc = "awaiting"
    /\ fn = "extractOutfitContext"
    /\ \E r \in ModelReplies :
        /\ reply' = r
        /\ outcome' = ExtractContextOutcome(r)
        /\ console' = ExtractContextLog(r)
    /\ pc' = "done"
    /\ UNCHANGED <<fn, message, params, context, prompt, calls, header>>

ExtractTravelInfo ==
    /\ pc = "idle"
    /\ \E m \in Messages :
        ExtractionCall("extractTravelInfo", m, "extractionSystemPrompt",
                       "Please provide a non-empty prompt.")

ExtractTravelInfoResume ==
    /\ pc = "awaiting"
    /\ fn = "extractTravelInfo"
    /\ \E r \in ModelReplies :
        /\ reply' = r
        /\ outcome' = ExtractContextOutcome(r)
        /\ console' = ExtractContextLog(r)
    /\ pc' = "done"
    /\ UNCHANGED <<fn, message, params, context, prompt, calls, header>>

(***************************************************************************)
(* Generation inputs.  A field that is unset is "", which is falsy like    *)
(* undefined.  A temperature is held in half degrees Fahrenheit, so that   *)
(* Math.round has something to round.                                      *)
(***************************************************************************)
\* the fields generateOutfitSuggestions of openai.ts destructures, in the
\* order it tests them
FieldOrder == <<"event", "lyrics", "movie", "anime", "sports", "culture", "destination">>

\* the same for generateOutfitSuggestions of part_001
FieldOrderPart001 ==
    <<"event", "lyrics", "movie", "anime", "sports", "culture", "season",
      "celebrity", "trend", "theme", "activity", "destination">>

FieldNames == {FieldOrderPart001[i] : i \in DOMAIN FieldOrderPart001}

\* OutfitContext.type of openai.ts
ContextTypes ==
    {"travel", "event", "lyrics", "movie", "anime", "sports", "culture", "generic"}

\* OutfitContext.type of part_001
ContextTypesPart001 ==
    {"travel", "event", "lyrics", "movie", "anime", "sports", "culture", "season",
     "celebrity", "trend", "theme", "activity", "generic"}

\* OutfitContext.inspirationType of parseOutfitPrompt
InspirationTypes ==
    {"travel", "event", "lyrics", "movie", "anime", "sports", "culture", "weather"}

SampleValue(f) ==
    CASE f = "event" -> "wedding"
      [] f = "lyrics" -> "Blinding Lights"
      [] f = "movie" -> "Dune"
      [] f = "anime" -> "Naruto"
      [] f = "sports" -> "Lakers"
      [] f = "culture" -> "Diwali"
      [] f = "season" -> "Winter"
      [] f = "celebrity" -> "Rihanna"
      [] f = "trend" -> "Gorpcore"
      [] f = "theme" -> "Bohemian"
      [] f = "activity" -> "Hiking"
      [] OTHER -> "Paris"

\* WeatherInfo.date is <<year, month, day>>
NoWeather ==
    [present |-> FALSE, date |-> <<>>, location |-> "", temperature |-> 0,
     description |-> ""]

WeatherOn(loc, halfDegrees, desc, date) ==
    [present |-> TRUE, date |-> date, location |-> loc, temperature |-> halfDegrees,
     description |-> desc]

Weather(loc, halfDegrees, desc) == WeatherOn(loc, halfDegrees, desc, <<2025, 1, 15>>)

\* 97, 89.5, 40, 31.5 and -0.5 degrees Fahrenheit
Weathers ==
    {Weather("Tokyo", h, "Sunny") : h \in {194, 179, 80, 63, -1}}

ValidDate == "2025-03-01"

Dates == {"", ValidDate, "next week"}

\* the fields of the set S populated, the others unset
FieldsOf(S) == [f \in FieldNames |-> IF f \in S THEN SampleValue(f) ELSE ""]

MakeParams(type, weather, date, S) ==
    [type |-> type, weather |-> weather, date |-> date, fields |-> FieldsOf(S)]

FieldSets(order) ==
    {S \in SUBSET {order[i] : i \in DOMAIN order} : Cardinality(S) <= MaxFields}

\* every params a caller can pass within the bounds
AllParams(types, order) ==
    {MakeParams(t, w, d, S) :
        t \in types \cup {"vibes", Undefined},
        w \in Weathers \cup {NoWeather},
        d \in Dates,
        S \in FieldSets(order)}

(***************************************************************************)
(* The context string of generateOutfitSuggestions: a template literal is  *)
(* the sequence of its pieces; `template` names the branch that built it.  *)
(***************************************************************************)
\* Math.round of h / 2: halves round towards plus infinity
MathRound(h) == (h + 1) \div 2

\* the thresholds tested from the lowest up
GetTemperatureCategoryMisordered(temp) ==
    IF temp >= 32 THEN "Cold"
    ELSE IF temp >= 40 THEN "Cool"
    ELSE IF temp >= 50 THEN "Mild"
    ELSE IF temp >= 60 THEN "Warm"
    ELSE IF temp >= 70 THEN "Hot"
    ELSE IF temp >= 80 THEN "Very Hot"
    ELSE IF temp >= 90 THEN "Scorching"
    ELSE "Freezing"

\* getTemperatureCategory / getTempCat
GetTemperatureCategory(temp) ==
    IF temp >= 90 THEN "Scorching"
    ELSE IF temp >= 80 THEN "Very Hot"
    ELSE IF temp >= 70 THEN "Hot"
    ELSE IF temp >= 60 THEN "Warm"
    ELSE IF temp >= 50 THEN "Mild"
    ELSE IF temp >= 40 THEN "Cool"
    ELSE IF temp >= 32 THEN "Cold"
    ELSE "Freezing"

IsSet(v) == v # ""

\* new Date(date) is valid; it is midnight UTC of that day
IsValidDate(d) == d = ValidDate

\* format(new Date(date), 'PP'): the local calendar day, which west of
\* Greenwich is the day before
FormatPP(d, west) == IF west THEN "Feb 28, 2025" ELSE "Mar 1, 2025"

Directive(template, text) == [threw |-> FALSE, template |-> template, text |-> text]

\* format throws RangeError on an invalid date
DirectiveThrows == [threw |-> TRUE, template |-> "", text |-> <<>>]

NoDirective == Directive("", <<>>)

WeatherDirective(w, label) ==
    LET temp == MathRound(w.temperature) IN
    Directive("weather",
        <<"Design 4 fashion-forward outfits for ", w.location, label,
          ToString(temp), "F (", GetTemperatureCategory(temp), "), Condition: ",
          w.description, ".">>)

\* the destination branch left out: a trip falls through to the neutral directive
TravelDirectiveSkipped(p, west) ==
    Directive("trends",
        <<"Design 4 globally inspired outfits following current fashion trends.">>)

TravelDirective(p, west) ==
    IF IsSet(p.date) /\ ~IsValidDate(p.date) THEN DirectiveThrows
    ELSE Directive("travel",
        <<"Design 4 versatile travel outfits for ", p.fields.destination, " on ",
          IF IsSet(p.date) THEN FormatPP(p.date, west) ELSE "an upcoming trip", ".">>)

NeutralDirective ==
    Directive("trends",
        <<"Design 4 globally inspired outfits following current fashion trends.">>)

\* the context string of openai.ts when no weather is given
FieldDirective(p, west) ==
    IF IsSet(p.fields.event)
         THEN Directive("event",
                <<"Design 4 on-trend outfits suitable for a ", p.fields.event, ".">>)
    ELSE IF IsSet(p.fields.lyrics)
         THEN Directive("lyrics",
                <<"Design 4 expressive outfits inspired by the vibe of these lyrics: \"",
                  p.fields.lyrics, "\".">>)
    ELSE IF IsSet(p.fields.movie)
         THEN Directive("movie",
                <<"Design 4 modern looks echoing the aesthetic of \"", p.fields.movie, "\".">>)
    ELSE IF IsSet(p.fields.anime)
         THEN Directive("anime",
                <<"Design 4 stylish outfits channeling the characters / art style of \"",
                  p.fields.anime, "\".">>)
    ELSE IF IsSet(p.fields.sports)
         THEN Directive("sports",
                <<"Design 4 fan-centric outfits for the ", p.fields.sports, " occasion.">>)
    ELSE IF IsSet(p.fields.culture)
         THEN Directive("culture",
                <<"Design 4 culturally resonant outfits for \"", p.fields.culture, "\".">>)
    ELSE IF IsSet(p.fields.destination) THEN TravelDirective(p, west)
    ELSE NeutralDirective

\* the weather test moved behind the field tests
ContextStringWeatherLast(p, west) ==
    LET d == FieldDirective(p, west) IN
    IF d.template # "trends" \/ ~p.weather.present THEN d
    ELSE WeatherDirective(p.weather, ". Temperature: ")

\* the context string of openai.ts
ContextString(p, west) ==
    IF p.weather.present THEN WeatherDirective(p.weather, ". Temperature: ")
    ELSE FieldDirective(p, west)

\* the context string of part_001 when no weather is given
FieldDirectivePart001(p, west) ==
    IF IsSet(p.fields.event)
         THEN Directive("event",
                <<"Design 4 stylish outfits suitable for a ", p.fields.event, ".">>)
    ELSE IF IsSet(p.fields.lyrics)
         THEN Directive("lyrics",
                <<"Design 4 expressive outfits inspired by these lyrics: \"",
                  p.fields.lyrics, "\".">>)
    ELSE IF IsSet(p.fields.movie)
         THEN Directive("movie",
                <<"Design 4 modern looks echoing the aesthetic of \"", p.fields.movie, "\".">>)
    ELSE IF IsSet(p.fields.anime)
         THEN Directive("anime",
                <<"Design 4 stylish outfits channeling the characters / art style of \"",
                  p.fields.anime, "\".">>)
    ELSE IF IsSet(p.fields.sports)
         THEN Directive("sports",
                <<"Design 4 fan-centric outfits for the ", p.fields.sports, " occasion.">>)
    ELSE IF IsSet(p.fields.culture)
         THEN Directive("culture",
                <<"Design 4 culturally resonant outfits for \"", p.fields.culture, "\".">>)
    ELSE IF IsSet(p.fields.season)
         THEN Directive("season",
                <<"Design 4 must-have outfits perfect for ", p.fields.season, " season.">>)
    ELSE IF IsSet(p.fields.celebrity)
         THEN Directive("celebrity",
                <<"Design 4 outfits that capture ", p.fields.celebrity, "'s signature style.">>)
    ELSE IF IsSet(p.fields.trend)
         THEN Directive("trend",
                <<"Design 4 outfits embodying the \"", p.fields.trend, "\" trend.">>)
    ELSE IF IsSet(p.fields.theme)
         THEN Directive("theme",
                <<"Design 4 outfits built around a \"", p.fields.theme, "\" theme.">>)
    ELSE IF IsSet(p.fields.activity)
         THEN Directive("activity",
                <<"Design 4 performance-ready outfits tailored for ", p.fields.activity, ".">>)
    ELSE IF IsSet(p.fields.destination) THEN TravelDirective(p, west)
    ELSE NeutralDirective

\* the context string of part_001
ContextStringPart001(p, west) ==
    IF p.weather.present THEN WeatherDirective(p.weather, ". Temp: ")
    ELSE FieldDirectivePart001(p, west)

(***************************************************************************)
(* Generation: generateOutfitSuggestions of openai.ts and of part_001.     *)
(***************************************************************************)
NoParams == MakeParams(Undefined, NoWeather, "", {})

\* the params of the invocations of Spec: nothing, an event, a trip with
\* and without a usable date, and an event with weather
SampleParams ==
    { NoParams,
      MakeParams("event", NoWeather, "", {"event"}),
      MakeParams("travel", NoWeather, ValidDate, {"destination"}),
      MakeParams("travel", NoWeather, "next week", {"destination"}),
      MakeParams("event", Weather("Tokyo", 179, "Sunny"), "", {"event"}) }

\* the cast alone, without the Array.isArray test: `return outfits`
ArrayUnchecked(v) == v

\* `Array.isArray(outfits) ? outfits : []`
ArrayOrEmpty(v) == IF IsArray(v) THEN v ELSE ArrayValue(<<>>)

\* the catch block around JSON.parse(raw)
OnOutfitParseError == Returned(ArrayValue(<<>>))

\* the continuation of generateOutfitSuggestions after the await
GenerateOutcome(r) ==
    IF r.status = "failed" THEN Thrown(TransportError)
    ELSE LET p == JSONParse(r.content) IN
         IF p.ok THEN Returned(ArrayOrEmpty(p.val)) ELSE OnOutfitParseError

GenerateLog(r) ==
    IF r.status = "ok" /\ ~JSONParse(r.content).ok
    THEN [label |-> "Outfit-parse error", text |-> r.content]
    ELSE NoLog

\* the prompt without the interpolated context string
UserPromptSchemaOnly(c) == <<"Each outfit must include: ...">>

\* the template literal `${context}\n\nEach outfit must include: ...`
UserPrompt(c) == c.text \o <<"Each outfit must include: ...">>

\* generateOutfitSuggestions up to its await: the context string is built
\* (format may throw there), then the external call is issued
GenerateCall(f, p, c) ==
    /\ pc = "idle"
    /\ fn' = f
    /\ params' = p
    /\ context' = c
    /\ reply' = NoReply
    /\ console' = NoLog
    /\ IF c.threw
       THEN /\ pc' = "done"
            /\ calls' = 0
            /\ prompt' = NoPrompt
            /\ outcome' = Thrown(Error("Invalid time value"))
       ELSE /\ pc' = "awaiting"
            /\ calls' = 1
            /\ prompt' = [system |-> "suggestionSystemPrompt", user |-> UserPrompt(c)]
            /\ outcome' = Pending
    /\ UNCHANGED <<message, header>>

\* the continuation of variant f, the external call settling with one of replies
GenerateResumeWith(f, replies) ==
    /\ pc = "awaiting"
    /\ fn = f
    /\ \E r \in replies :
        /\ reply' = r
        /\ outcome' = GenerateOutcome(r)
        /\ console' = GenerateLog(r)
    /\ pc' = "done"
    /\ UNCHANGED <<fn, message, params, context, prompt, calls, header>>

GenerateResume(f) == GenerateResumeWith(f, ModelReplies)

GenerateOutfitSuggestions ==
    /\ pc = "idle"
    /\ \E p \in SampleParams, west \in BOOLEAN :
        GenerateCall("generateOutfitSuggestions", p, ContextString(p, west))

GenerateOutfitSuggestionsResume ==
    /\ pc = "awaiting"
    /\ GenerateResume("generateOutfitSuggestions")

GenerateOutfitSuggestionsPart001 ==
    /\ pc = "idle"
    /\ \E p \in SampleParams, west \in BOOLEAN :
        GenerateCall("generateOutfitSuggestions@part_001", p, ContextStringPart001(p, west))

GenerateOutfitSuggestionsPart001Resume ==
    /\ pc = "awaiting"
    /\ GenerateResume("generateOutfitSuggestions@part_001")

(***************************************************************************)
(* The caller takes the outcome; the next invocation starts afresh: the    *)
(* services keep no state between calls.                                   *)
(***************************************************************************)
(***************************************************************************)
(* The Header component.  Its auth effect asks the auth client for the     *)
(* user and subscribes to the client's auth-state changes; the promise of  *)
(* getUser settles with the user of the session at that moment and its     *)
(* continuation runs later.                                                *)
(***************************************************************************)
NoUser == "null"

Users == {NoUser, "alice", "bob"}

\* the promise of one getUser() call: `seen` is the number of auth-state
\* changes delivered when it settled
GetUserPromise(status, user, seen) == [status |-> status, user |-> user, seen |-> seen]

\* the component after its first render, before its effects ran
HeaderInitial(session) ==
    [ alive           |-> TRUE,     \* mounted
      user            |-> NoUser,   \* useState<any>(null)
      session         |-> session,  \* the user of the auth client's session
      subscription    |-> 0,        \* the effect run whose subscription is live
      promises        |-> <<>>,     \* the getUser() promise of each effect run
      changes         |-> 0,        \* changes of the session
      events          |-> 0,        \* auth-state changes delivered to the callback
      lastEvent       |-> NoUser,   \* session?.user ?? null of the last one
      closes          |-> 0,        \* calls of onCloseAuthModal
      overwrote       |-> FALSE,    \* a getUser result replaced a newer user
      setAfterCleanup |-> FALSE ]   \* setUser ran for a cleaned-up effect run

\* setUser: a state update of an unmounted component is dropped
SetUser(h, u) == IF h.alive THEN [h EXCEPT !.user = u] ELSE h

\* the auth effect runs: after the first render, and again (after its
\* cleanup) whenever onCloseAuthModal changed
HeaderEffect ==
    /\ header.alive
    /\ Len(header.promises) < MaxEffects
    /\ header' = [header EXCEPT
                    !.promises = Append(@, GetUserPromise("inflight", NoUser, 0)),
                    !.subscription = Len(header.promises) + 1]
    /\ UNCHANGED services

\* the component unmounts: the effect's cleanup unsubscribes
HeaderUnmount ==
    /\ header.alive
    /\ header.subscription # 0
    /\ header' = [header EXCEPT !.alive = FALSE, !.subscription = 0]
    /\ UNCHANGED services

\* a getUser() promise settles with the user of the session
GetUserSettles ==
    /\ \E g \in DOMAIN header.promises :
          /\ header.promises[g].status = "inflight"
          /\ header' = [header EXCEPT
                          !.promises[g] =
                              GetUserPromise("resolved", header.session, header.events)]
    /\ UNCHANGED services

\* .then(({ data: { user } }) => setUser(user))
GetUserThen ==
    /\ \E g \in DOMAIN header.promises :
          LET p == header.promises[g] IN
          /\ p.status = "resolved"
          /\ header' = [SetUser(header, p.user) EXCEPT
                          !.promises[g].status = "done",
                          !.overwrote =
                              @ \/ (/\ header.alive
                                    /\ header.events > p.seen
                                    /\ p.user # header.user),
                          !.setAfterCleanup = @ \/ g # header.subscription]
    /\ UNCHANGED services

\* the session becomes that of u; the callback of a live subscription runs:
\* setUser(session?.user ?? null); if (session?.user) onCloseAuthModal()
SessionChange(u) ==
    /\ header.changes < MaxEvents
    /\ header' =
          IF header.subscription # 0
          THEN [SetUser(header, u) EXCEPT
                  !.session = u,
                  !.changes = @ + 1,
                  !.events = @ + 1,
                  !.lastEvent = u,
                  !.closes = IF u # NoUser THEN @ + 1 ELSE @]
          ELSE [header EXCEPT !.session = u, !.changes = @ + 1]
    /\ UNCHANGED services

\* a sign-in, a token refresh or a sign-out elsewhere
AuthStateChange ==
    /\ header.changes < MaxEvents
    /\ \E u \in Users : SessionChange(u)

\* handleSignOut: the button is rendered while user is set
HandleSignOut ==
    /\ header.alive
    /\ header.user # NoUser
    /\ SessionChange(NoUser)

Init ==
    /\ pc = "idle"
    /\ fn = ""
    /\ message = <<>>
    /\ params = NoParams
    /\ context = NoDirective
    /\ prompt = NoPrompt
    /\ calls = 0
    /\ reply = NoReply
    /\ outcome = Pending
    /\ console = NoLog
    /\ header = HeaderInitial(NoUser)

Return ==
    /\ pc = "done"
    /\ pc' = "idle"
    /\ fn' = ""
    /\ message' = <<>>
    /\ params' = NoParams
    /\ context' = NoDirective
    /\ prompt' = NoPrompt
    /\ calls' = 0
    /\ reply' = NoReply
    /\ outcome' = Pending
    /\ console' = NoLog
    /\ header' = header

Next ==
    \/ ExtractOutfitContext
    \/ ExtractOutfitContextResume
    \/ ParseOutfitPrompt
    \/ ParseOutfitPromptResume
    \/ ExtractTravelInfo
    \/ ExtractTravelInfoResume
    \/ GenerateOutfitSuggestions
    \/ GenerateOutfitSuggestionsResume
    \/ GenerateOutfitSuggestionsPart001
    \/ GenerateOutfitSuggestionsPart001Resume
    \/ Return

Spec == Init /\ [][Next]_vars

(***************************************************************************)
(* The context string as a function of params: every params within the     *)
(* bounds, and the step that builds the context string from it.            *)
(***************************************************************************)
InitDirective ==
    /\ pc = "idle"
    /\ \/ /\ fn = "generateOutfitSuggestions"
          /\ params \in AllParams(ContextTypes, FieldOrder)
       \/ /\ fn = "generateOutfitSuggestions@part_001"
          /\ params \in AllParams(ContextTypesPart001, FieldOrderPart001)
    /\ message = <<>>
    /\ context = NoDirective
    /\ prompt = NoPrompt
    /\ calls = 0
    /\ reply = NoReply
    /\ outcome = Pending
    /\ console = NoLog
    /\ header = HeaderInitial(NoUser)

BuildContext ==
    /\ pc = "idle"
    /\ fn = "generateOutfitSuggestions"
    /\ \E west \in BOOLEAN : context' = ContextString(params, west)
    /\ pc' = "built"
    /\ UNCHANGED <<fn, message, params, prompt, calls, reply, outcome, console, header>>

BuildContextPart001 ==
    /\ pc = "idle"
    /\ fn = "generateOutfitSuggestions@part_001"
    /\ \E west \in BOOLEAN : context' = ContextStringPart001(params, west)
    /\ pc' = "built"
    /\ UNCHANGED <<fn, message, params, prompt, calls, reply, outcome, console, header>>

NextDirective == BuildContext \/ BuildContextPart001

SpecDirective == InitDirective /\ [][NextDirective]_vars

(***************************************************************************)
(* Generations for an event: every params within the bounds whose category *)
(* is event and whose event field is populated, the call, and the external *)
(* call settling in each of the ways it can.                               *)
(***************************************************************************)
IsEventParams(p) == p.type = "event" /\ IsSet(p.fields.event)

\* a transport failure, a null content, prose, an array, an object
SampleReplies ==
    { TransportFailure,
      Completion(NoText),
      Completion(Text(<<Prose>>)),
      Completion(Text(ArrayText(<<FullOutfit>>))),
      Completion(Text(<<EmptyObject>>)) }

InitEvent ==
    /\ pc = "idle"
    /\ \/ /\ fn = "generateOutfitSuggestions"
          /\ params \in {p \in AllParams(ContextTypes, FieldOrder) : IsEventParams(p)}
       \/ /\ fn = "generateOutfitSuggestions@part_001"
          /\ params \in {p \in AllParams(ContextTypesPart001, FieldOrderPart001) :
                            IsEventParams(p)}
    /\ message = <<>>
    /\ context = NoDirective
    /\ prompt = NoPrompt
    /\ calls = 0
    /\ reply = NoReply
    /\ outcome = Pending
    /\ console = NoLog
    /\ header = HeaderInitial(NoUser)

EventCall ==
    /\ pc = "idle"
    /\ fn = "generateOutfitSuggestions"
    /\ \E west \in BOOLEAN : GenerateCall(fn, params, ContextString(params, west))

EventCallPart001 ==
    /\ pc = "idle"
    /\ fn = "generateOutfitSuggestions@part_001"
    /\ \E west \in BOOLEAN : GenerateCall(fn, params, ContextStringPart001(params, west))

EventSettle ==
    /\ pc = "awaiting"
    /\ GenerateResumeWith(fn, SampleReplies)

NextEvent == EventCall \/ EventCallPart001 \/ EventSettle

SpecEvent == InitEvent /\ [][NextEvent]_vars

(***************************************************************************)
(* Generations from a weather observation: every temperature from          *)
(* -MaxTemperature / 2 to MaxTemperature in half degrees, on the days      *)
(* around the turns of the seasons.                                        *)
(***************************************************************************)
ObservationDates ==
    { <<2025, 1, 15>>, <<2025, 7, 4>>, <<2025, 2, 28>>, <<2025, 3, 1>>,
      <<2025, 5, 31>>, <<2025, 6, 1>>, <<2025, 8, 31>>, <<2025, 9, 1>>,
      <<2025, 11, 30>>, <<2025, 12, 1>> }

HalfDegrees == (-MaxTemperature)..(2 * MaxTemperature)

InitWeather ==
    /\ pc = "idle"
    /\ fn \in {"generateOutfitSuggestions", "generateOutfitSuggestions@part_001"}
    /\ \E h \in HalfDegrees, d \in ObservationDates :
          params = MakeParams(Undefined, WeatherOn("Tokyo", h, "Sunny", d), "", {})
    /\ message = <<>>
    /\ context = NoDirective
    /\ prompt = NoPrompt
    /\ calls = 0
    /\ reply = NoReply
    /\ outcome = Pending
    /\ console = NoLog
    /\ header = HeaderInitial(NoUser)

SpecWeather == InitWeather /\ [][NextDirective]_vars

(***************************************************************************)
(* Properties of extraction.                                               *)
(***************************************************************************)
ExtractionEntryPoints == {"parseOutfitPrompt", "extractOutfitContext", "extractTravelInfo"}

GenerationEntryPoints ==
    {"generateOutfitSuggestions", "generateOutfitSuggestions@part_001"}

InputErrorMessages ==
    {"Please provide a valid input", "Please provide a non-empty prompt."}

WhitespaceOnly(m) == \A i \in DOMAIN m : m[i] = " "

\* C1: an extraction invoked with an empty or whitespace-only message has
\* thrown its input error, and it has issued no external call: nothing was
\* sent, nothing was received, and it never waits for the external model.
C1_BlankInputFailsWithoutCall ==
    (fn \in ExtractionEntryPoints /\ WhitespaceOnly(message)) =>
        /\ pc = "done"
        /\ outcome.status = "thrown"
        /\ outcome.error.message \in InputErrorMessages
        /\ calls = 0
        /\ prompt = NoPrompt
        /\ reply = NoReply

C1_Witness ==
    /\ pc = "done"
    /\ fn = "extractTravelInfo"
    /\ message = <<" ", " ">>
    /\ outcome.status = "thrown"
    /\ calls = 0

\* the category tag of a returned context: inspirationType for
\* parseOutfitPrompt, type for the other two
CategoryOf(f, v) ==
    IF f = "parseOutfitPrompt" THEN v.props.inspirationType ELSE v.props.type

\* every category value the code or the specification enumerates
EnumeratedCategories ==
    ContextTypes \cup ContextTypesPart001 \cup InspirationTypes \cup {"item"}

IsObjectReply(r) ==
    r.status = "ok" /\ r.content.present /\ Len(r.content.text) = 1
        /\ r.content.text[1] \in ObjectLiterals

\* C2: whenever an extraction given a JSON-object reply returns a context,
\* the context's category is one of the enumerated values.
C2_CategoryAlwaysEnumerated ==
    (pc = "done" /\ fn \in ExtractionEntryPoints /\ IsObjectReply(reply)
        /\ outcome.status = "returned") =>
        CategoryOf(fn, outcome.value) \in EnumeratedCategories

\* C7: when the reply to an extraction is not parseable as JSON, the
\* extraction throws an error from which the raw reply text can be read, and
\* it has issued exactly one external call.
C7_ParseErrorCarriesRawText ==
    (pc = "done" /\ fn \in ExtractionEntryPoints /\ reply.status = "ok"
        /\ reply.content.present /\ Truthy(reply.content.text)
        /\ ~JSONParse(reply.content).ok) =>
        /\ outcome.status = "thrown"
        /\ outcome.error.quoted = reply.content
        /\ calls = 1

EmptyList == ArrayValue(<<>>)

\* C3: a generation whose external call failed in transport has returned an
\* empty list; its caller sees no exception.
C3_TransportErrorYieldsEmptyList ==
    (pc = "done" /\ fn \in GenerationEntryPoints /\ reply = TransportFailure) =>
        outcome = Returned(EmptyList)

\* a suggestion with its four fields present and non-empty
IsCompleteSuggestion(v) ==
    /\ v.kind = "object"
    /\ \A k \in {"type", "description", "searchQuery", "imagePrompt"} :
          v.props[k] \notin {Undefined, ""}

\* C4: a generation that returns yields either an empty list or exactly four
\* suggestions, each with all four fields non-empty.
C4_FourCompleteOrNone ==
    (pc = "done" /\ fn \in GenerationEntryPoints /\ outcome.status = "returned") =>
        /\ outcome.value.kind = "array"
        /\ \/ outcome.value.items = <<>>
           \/ /\ Len(outcome.value.items) = 4
              /\ \A i \in 1..4 : IsCompleteSuggestion(outcome.value.items[i])

ElementLists == UNION {[1..n -> ElementLiterals] : n \in 0..MaxElems}

ValuesOf(es) == [i \in DOMAIN es |-> LiteralValue(es[i])]

\* C5: when the reply to a generation is a JSON array with prose before its
\* "[" and/or after its "]", the generation returns the elements of that
\* array.
C5_EmbeddedArrayRecovered ==
    (pc = "done" /\ fn \in GenerationEntryPoints /\ reply.status = "ok"
        /\ reply.content.present) =>
        \A pre \in ProseRuns, post \in ProseRuns, es \in ElementLists :
            (pre \o post # <<>> /\ reply.content.text = pre \o ArrayText(es) \o post) =>
                outcome = Returned(ArrayValue(ValuesOf(es)))

\* the text has no "[" followed, somewhere later, by a "]"
NoBracketPair(t) ==
    ~\E i \in DOMAIN t, j \in DOMAIN t : i < j /\ t[i] = "[" /\ t[j] = "]"

\* C6: when the external call of a generation succeeds and its reply has no
\* bracket pair, or is not JSON, or is JSON but not an array, the generation
\* has returned an empty list and thrown nothing.
C6_MalformedReplyYieldsEmptyList ==
    (pc = "done" /\ fn \in GenerationEntryPoints /\ reply.status = "ok"
        /\ \/ ~reply.content.present
           \/ NoBracketPair(reply.content.text)
           \/ ~JSONParse(reply.content).ok
           \/ JSONParse(reply.content).val.kind # "array") =>
        outcome = Returned(EmptyList)

C6_Witness ==
    /\ pc = "done"
    /\ fn = "generateOutfitSuggestions@part_001"
    /\ reply = Completion(Text(<<EmptyObject>>))
    /\ outcome = Returned(EmptyList)

(***************************************************************************)
(* Properties of the context string.                                       *)
(***************************************************************************)
\* the integer nearest to h / 2, halves upwards
Nearest(h) == CHOOSE r \in -200..200 : 2 * r - 1 <= h /\ h < 2 * r + 1

\* C9: whenever weather is supplied, the context string is the weather one,
\* built from the location, the rounded temperature, its label and the
\* condition, whatever the category and whatever other fields are populated.
C9_WeatherTakesPrecedence ==
    (pc = "built" /\ params.weather.present) =>
        /\ ~context.threw
        /\ context.template = "weather"
        /\ Len(context.text) = 9
        /\ context.text[2] = params.weather.location
        /\ context.text[4] = ToString(Nearest(params.weather.temperature))
        /\ context.text[6] = GetTemperatureCategory(Nearest(params.weather.temperature))
        /\ context.text[8] = params.weather.description

C9_Witness ==
    /\ pc = "built"
    /\ fn = "generateOutfitSuggestions"
    /\ params.weather.present
    /\ params.weather.temperature = 179
    /\ params.type = "event"
    /\ IsSet(params.fields.event)
    /\ IsSet(params.fields.destination)
    /\ context.template = "weather"
    /\ context.text[4] = "90"

\* the field that carries a category's subject
OwnField(type) == IF type = "travel" THEN "destination" ELSE type

TypesOf(f) == IF f = "generateOutfitSuggestions" THEN ContextTypes ELSE ContextTypesPart001

OrderOf(f) == IF f = "generateOutfitSuggestions" THEN FieldOrder ELSE FieldOrderPart001

Populated(f, p) == {i \in DOMAIN OrderOf(f) : p.fields[OrderOf(f)[i]] # ""}

FirstPopulated(f, p) ==
    OrderOf(f)[CHOOSE i \in Populated(f, p) : \A j \in Populated(f, p) : i <= j]

Contains(text, e) == \E i \in DOMAIN text : text[i] = e

Issued == pc \in {"awaiting", "done"}

\* C11 as stated: every generation whose context has category event and a
\* non-empty event field e sends the external model a directive that
\* contains e.
C11_EventDirectiveContainsEvent ==
    (fn \in GenerationEntryPoints /\ Issued /\ IsEventParams(params)) =>
        Contains(prompt.user, params.fields.event)

\* the event sentence of variant f for the event e
EventSentence(f, e) ==
    IF f = "generateOutfitSuggestions"
    THEN <<"Design 4 on-trend outfits suitable for a ", e, ".">>
    ELSE <<"Design 4 stylish outfits suitable for a ", e, ".">>

\* C11 as amended: every generation with no weather supplied whose context
\* has category event and a non-empty event field e sends the external model
\* a directive that contains e; the directive is the event sentence for e,
\* one value for one input record, and it is still that after the external
\* call has settled, whatever it settled with.
C11_EventDirectiveWithoutWeather ==
    (fn \in GenerationEntryPoints /\ Issued /\ IsEventParams(params)
        /\ ~params.weather.present) =>
        /\ Contains(prompt.user, params.fields.event)
        /\ context.text = EventSentence(fn, params.fields.event)
        /\ SubSeq(prompt.user, 1, Len(context.text)) = context.text

C11_Witness ==
    /\ pc = "done"
    /\ fn = "generateOutfitSuggestions@part_001"
    /\ IsEventParams(params)
    /\ ~params.weather.present
    /\ IsSet(params.fields.activity)
    /\ reply = Completion(Text(<<Prose>>))
    /\ Contains(prompt.user, "wedding")

(***************************************************************************)
(* Properties of the labels of a weather observation.                      *)
(***************************************************************************)
\* the label in the weather sentence, and the temperature it stands for
LabelBuilt == context.text[6]

TemperatureBuilt == Nearest(params.weather.temperature)

\* the labels from the coldest to the hottest
Scale ==
    <<"Freezing", "Cold", "Cool", "Mild", "Warm", "Hot", "Very Hot", "Scorching">>

Rank(scale, l) == CHOOSE i \in DOMAIN scale : scale[i] = l

\* the label built is one label of the scale, and no lower temperature has a
\* hotter label
OneMonotonicLabel(scale) ==
    /\ LabelBuilt \in {scale[i] : i \in DOMAIN scale}
    /\ \E r \in {TemperatureBuilt}, k \in {Rank(scale, LabelBuilt)} :
          \A t \in (-MaxTemperature)..MaxTemperature :
              t <= r => Rank(scale, GetTemperatureCategory(t)) <= k

LabelsOnScale(scale, labelOf97) ==
    /\ TemperatureBuilt = 97 => LabelBuilt = labelOf97
    /\ TemperatureBuilt = 40 => LabelBuilt \in {"Cool", "Cold"}
    /\ OneMonotonicLabel(scale)

\* C12 as stated: the label of 97 degrees is "Extreme Heat", the label of 40
\* degrees is "Cool" or "Cold", and the labels are one monotonic step
\* function of the temperature.
C12_ExtremeHeatAt97 ==
    (pc = "built" /\ params.weather.present) => 
        LabelsOnScale(Append(Scale, "Extreme Heat"), "Extreme Heat")

\* C12 as amended: the label of 97 degrees is "Scorching", the label of 40
\* degrees is "Cool" or "Cold", and the labels are one monotonic step
\* function of the temperature: every temperature has exactly one label of
\* the scale Freezing .. Scorching, and a lower temperature never has a
\* hotter label.
C12_ScorchingAt97 ==
    (pc = "built" /\ params.weather.present) => LabelsOnScale(Scale, "Scorching")

C12_Witness ==
    /\ pc = "built"
    /\ fn = "generateOutfitSuggestions@part_001"
    /\ params.weather.temperature = 194
    /\ LabelBuilt = "Scorching"

\* the season of a calendar month: Dec-Feb Winter, Mar-May Spring, Jun-Aug
\* Summer, Sep-Nov Fall
SeasonOf(month) ==
    IF month \in {12, 1, 2} THEN "Winter"
    ELSE IF month \in {3, 4, 5} THEN "Spring"
    ELSE IF month \in {6, 7, 8} THEN "Summer"
    ELSE "Fall"

\* C13: when weather is supplied, the directive built carries the season
\* label of the month of the observation's date.
C13_SeasonLabelFromDate ==
    (pc = "built" /\ params.weather.present) =>
        Contains(context.text, SeasonOf(params.weather.date[2]))

(***************************************************************************)
(* The Header component on its own: mounted with any session, then any     *)
(* interleaving of effect runs, promise steps, session changes and the     *)
(* unmount.                                                                *)
(***************************************************************************)
InitHeader ==
    /\ pc = "idle"
    /\ fn = ""
    /\ message = <<>>
    /\ params = NoParams
    /\ context = NoDirective
    /\ prompt = NoPrompt
    /\ calls = 0
    /\ reply = NoReply
    /\ outcome = Pending
    /\ console = NoLog
    /\ \E u \in Users : header = HeaderInitial(u)

NextHeader ==
    \/ HeaderEffect
    \/ HeaderUnmount
    \/ GetUserSettles
    \/ GetUserThen
    \/ AuthStateChange
    \/ HandleSignOut

SpecHeader == InitHeader /\ [][NextHeader]_vars

(***************************************************************************)
(* Properties of the Header component.                                     *)
(***************************************************************************)
\* C14: once an auth-state change has been delivered, user is the user of
\* the most recent one; a late getUser() result never replaces a newer
\* user; and setUser never runs for an effect run that has been cleaned up.
C14_UserFollowsLatestAuthEvent ==
    /\ header.events > 0 => header.user = header.lastEvent
    /\ ~header.overwrote
    /\ ~header.setAfterCleanup

====
